---- MODULE Spec2Model ----
(***************************************************************************)
(* A model of go-expert-otel: the telemetry library otel-lib/pkg/otel.go   *)
(* (Config, Provider, InitProvider, TracerMiddleware) and the              *)
(* demonstration program (main, its HTTP handlers, its signal handling).   *)
(*                                                                         *)
(* Four specifications share the variables:                                *)
(*   Spec          concurrent InitProvider calls against the global state  *)
(*   SpecShutdown  Provider.Shutdown on initialised providers (fair)       *)
(*   SpecMain      the demonstration program, from start to process exit   *)
(*   SpecHandlers  the request handlers running against a live provider    *)
(***************************************************************************)
EXTENDS Integers, Sequences, FiniteSets, TLC

\* ------------------------------------------------------------------ bounds
MaxCalls == 2
MaxAttrs == 1
MaxBuffered == 1
MaxReqs == 2

Calls == 1..MaxCalls
Reqs == 1..MaxReqs

\* ------------------------------------------------------ values of the model
Nil == "nil"
\* An absent pointer or error is the empty sequence, a present one <<value>>.
None == <<>>
Some(x) == <<x>>
\* Tracer providers are numbered from 1; 0 is the no-op provider otel starts with.
NoopTP == 0
\* otel starts with a composite propagator of no parts.
NoopProp == <<>>
CompositeProp == <<"tracecontext", "baggage">>

ServiceNames == {"", "unknown-service"}
AttrPool == {[k |-> "deployment.region", v |-> "br-south"]}
ResourceErrs == {"invalid attribute"}
ExporterErrs == {"connection refused", "context deadline exceeded"}

RECURSIVE SeqsUpTo(_, _)
SeqsUpTo(S, n) ==
  IF n = 0 THEN {<<>>}
  ELSE LET shorter == SeqsUpTo(S, n - 1)
       IN shorter \cup {Append(s, x) : s \in {t \in shorter : Len(t) = n - 1}, x \in S}

\* ------------------------------------------------------------- the library
VARIABLES
  global,    \* process-wide otel state: [tp, prop]
  calls,     \* InitProvider activations: per call its position, locals and result
  heap,      \* backing arrays of the callers' Config.Attributes slices
  nextTP,    \* allocator of tracer-provider identities
  hist,      \* record of what happened: [lastWriter, lastOK, overlap]
  sd,        \* Provider.Shutdown activations, one per provider
  buffered,  \* spans held by each provider's batch span processor
  main,      \* the demonstration program's main goroutine
  server,    \* the http.Server of the demonstration program
  listener,  \* the goroutine running server.ListenAndServe
  proc,      \* the process: [exit, log, signal]
  reqs,      \* handler activations, one goroutine per inbound request
  spans      \* every span started so far, in order of creation

libVars == <<global, calls, heap, nextTP, hist>>
sdVars == <<sd, buffered>>
mainVars == <<main, server, listener, proc>>
reqVars == <<reqs, spans>>
vars == <<global, calls, heap, nextTP, hist, sd, buffered, main, server, listener, proc, reqs, spans>>
nonLib == <<sd, buffered, main, server, listener, proc, reqs, spans>>

\* Config (otel.go:21-29). Attributes is a slice: a view [arr, len] of a backing array.
DefaultConfig ==
  [ServiceName |-> "unknown-service", ServiceVersion |-> "0.0.1",
   Environment |-> "development", OtelEndpoint |-> "localhost:4317",
   Attributes |-> [arr |-> 0, len |-> 0],
   Sampler |-> "AlwaysSample", Timeout |-> 5]

\* The elements a slice shows.
SliceElems(h, s) == IF s.len = 0 THEN <<>> ELSE SubSeq(h[s.arr], 1, s.len)

\* otel.go:68-72: the three built-in attributes, a fresh slice of len 3, cap 3.
BuiltinAttrs(cfg) ==
  << [k |-> "service.name", v |-> cfg.ServiceName],
     [k |-> "service.version", v |-> cfg.ServiceVersion],
     [k |-> "environment", v |-> cfg.Environment] >>

\* A merge that writes the environment attribute into the caller's slice.
MergeAttrsInPlace(h, cfg) ==
  LET s == cfg.Attributes
      h2 == IF s.len = 0 THEN h
            ELSE [h EXCEPT ![s.arr][1] = [k |-> "environment", v |-> cfg.Environment]]
  IN [attrs |-> BuiltinAttrs(cfg) \o SliceElems(h2, s), heap |-> h2]

\* otel.go:68-73: attrs = append(builtin, cfg.Attributes...). The built-in slice
\* is full, so append copies into a new array; the caller's array is only read.
MergeAttrs(h, cfg) ==
  [attrs |-> BuiltinAttrs(cfg) \o SliceElems(h, cfg.Attributes), heap |-> h]

\* fmt.Errorf("<msg>: %w", cause)
WrapErr(msg, cause) == Some([msg |-> msg, cause |-> cause])

IdleCall ==
  [pc |-> "idle", callerCfg |-> DefaultConfig, cfg |-> DefaultConfig, attrs |-> <<>>,
   res |-> <<>>, exporter |-> "untried", tp |-> NoopTP, wrote |-> {},
   provider |-> None, err |-> None]

InFlight(c) == calls[c].pc \notin {"idle", "done"}

\* The caller builds a Config and calls InitProvider(ctx, cfg): cfg is passed by
\* value, its Attributes slice still views the caller's array (otel.go:66).
Call(c, base, arr) ==
  /\ calls[c].pc = "idle"
  /\ LET cfg == [base EXCEPT !.Attributes = [arr |-> c, len |-> Len(arr)]]
     IN calls' = [calls EXCEPT ![c] = [IdleCall EXCEPT !.pc = "attrs",
                                         !.callerCfg = cfg, !.cfg = cfg]]
  /\ heap' = [heap EXCEPT ![c] = arr]
  /\ hist' = [hist EXCEPT !.overlap = @ \/ (\E d \in Calls \ {c} : InFlight(d))]
  /\ UNCHANGED <<global, nextTP>> /\ UNCHANGED nonLib

\* otel.go:68-73: the resource attributes are built from the configuration.
BuildAttrs(c) ==
  /\ calls[c].pc = "attrs"
  /\ LET m == MergeAttrs(heap, calls[c].cfg)
     IN /\ heap' = m.heap
        /\ calls' = [calls EXCEPT ![c].pc = "resource", ![c].attrs = m.attrs]
  /\ UNCHANGED <<global, nextTP, hist>> /\ UNCHANGED nonLib

\* otel.go:75-79: resource.New succeeds.
ResourceOK(c) ==
  /\ calls[c].pc = "resource"
  /\ calls' = [calls EXCEPT ![c].pc = "exporter", ![c].res = calls[c].attrs]
  /\ UNCHANGED <<global, heap, nextTP, hist>> /\ UNCHANGED nonLib

\* A resource failure reported with the exporter stage's wrapper.
ResourceFailWrongStage(c, e) ==
  /\ calls[c].pc = "resource"
  /\ calls' = [calls EXCEPT ![c].pc = "done",
                            ![c].err = WrapErr("failed to create trace exporter", e)]
  /\ UNCHANGED <<global, heap, nextTP, hist>> /\ UNCHANGED nonLib

\* otel.go:80-82: resource.New fails; return nil and the wrapped error.
ResourceFail(c, e) ==
  /\ calls[c].pc = "resource"
  /\ calls' = [calls EXCEPT ![c].pc = "done",
                            ![c].err = WrapErr("failed to create resource", e)]
  /\ UNCHANGED <<global, heap, nextTP, hist>> /\ UNCHANGED nonLib

\* otel.go:86-106: the exporter is created; the batch span processor and the
\* tracer provider are built around it.
ExporterOK(c) ==
  /\ calls[c].pc = "exporter"
  /\ calls' = [calls EXCEPT ![c].pc = "setTP", ![c].exporter = "created",
                            ![c].tp = nextTP]
  /\ nextTP' = nextTP + 1
  /\ UNCHANGED <<global, heap, hist>> /\ UNCHANGED nonLib

\* An exporter failure that returns after the provider was installed globally.
ExporterFailInstalls(c, e) ==
  /\ calls[c].pc = "exporter"
  /\ calls' = [calls EXCEPT ![c].pc = "done", ![c].exporter = "failed",
                            ![c].wrote = {"tp"},
                            ![c].err = WrapErr("failed to create trace exporter", e)]
  /\ global' = [global EXCEPT !.tp = nextTP]
  /\ nextTP' = nextTP + 1
  /\ UNCHANGED <<heap, hist>> /\ UNCHANGED nonLib

\* otel.go:94-96: otlptrace.New fails; return nil and the wrapped error.
ExporterFail(c, e) ==
  /\ calls[c].pc = "exporter"
  /\ calls' = [calls EXCEPT ![c].pc = "done", ![c].exporter = "failed",
                            ![c].err = WrapErr("failed to create trace exporter", e)]
  /\ UNCHANGED <<global, heap, nextTP, hist>> /\ UNCHANGED nonLib

\* An install that keeps a provider already installed.
SetTracerProviderFirstWins(c) ==
  /\ calls[c].pc = "setTP"
  /\ global' = [global EXCEPT !.tp = IF @ = NoopTP THEN calls[c].tp ELSE @]
  /\ calls' = [calls EXCEPT ![c].pc = "setProp", ![c].wrote = @ \cup {"tp"}]
  /\ hist' = [hist EXCEPT !.lastWriter = c]
  /\ UNCHANGED <<heap, nextTP>> /\ UNCHANGED nonLib

\* otel.go:109: otel.SetTracerProvider(tracerProvider).
SetTracerProvider(c) ==
  /\ calls[c].pc = "setTP"
  /\ global' = [global EXCEPT !.tp = calls[c].tp]
  /\ calls' = [calls EXCEPT ![c].pc = "setProp", ![c].wrote = @ \cup {"tp"}]
  /\ hist' = [hist EXCEPT !.lastWriter = c]
  /\ UNCHANGED <<heap, nextTP>> /\ UNCHANGED nonLib

\* otel.go:112-115: otel.SetTextMapPropagator(composite of TraceContext, Baggage).
SetTextMapPropagator(c) ==
  /\ calls[c].pc = "setProp"
  /\ global' = [global EXCEPT !.prop = CompositeProp]
  /\ calls' = [calls EXCEPT ![c].pc = "return", ![c].wrote = @ \cup {"prop"}]
  /\ UNCHANGED <<heap, nextTP, hist>> /\ UNCHANGED nonLib

\* otel.go:117-120: return &Provider{tracerProvider, config: cfg}, nil.
Return(c) ==
  /\ calls[c].pc = "return"
  /\ calls' = [calls EXCEPT ![c].pc = "done",
                            ![c].provider = Some([tracerProvider |-> calls[c].tp,
                                                  config |-> calls[c].cfg])]
  /\ hist' = [hist EXCEPT !.lastOK = c]
  /\ UNCHANGED <<global, heap, nextTP>> /\ UNCHANGED nonLib

\* One step of InitProvider (otel.go:66-121) in call c.
InitProviderStep(c) ==
  \/ BuildAttrs(c)
  \/ ResourceOK(c)
  \/ \E e \in ResourceErrs : ResourceFail(c, e)
  \/ ExporterOK(c)
  \/ \E e \in ExporterErrs : ExporterFail(c, e)
  \/ SetTracerProvider(c)
  \/ SetTextMapPropagator(c)
  \/ Return(c)


\* ------------------------------------------------------- Provider.Shutdown
\* A context is "background" (no deadline), "pending" (deadline ahead) or
\* "expired" (deadline passed).
CtxKinds == {"background", "pending", "expired"}
DeadlineExceeded == "context deadline exceeded"

IdleShutdown ==
  [pc |-> "idle", ctx0 |-> Nil, ctx |-> Nil, passed |-> Nil, sdkRes |-> Nil,
   res |-> Nil, exported |-> 0]

\* The context the tracer provider's Shutdown runs under.
SdkCtx(c) == IF sd[c].passed = "ctx" THEN sd[c].ctx ELSE "background"

\* A Shutdown that hands the tracer provider a context of its own.
ShutdownCallDetached(c, ctx) ==
  /\ calls[c].provider # None
  /\ sd[c].pc = "idle"
  /\ sd' = [sd EXCEPT ![c] = [IdleShutdown EXCEPT !.pc = "sdk", !.ctx0 = ctx,
                                !.ctx = ctx, !.passed = "background"]]
  /\ UNCHANGED <<buffered, main, server, listener, proc, reqs, spans>>
  /\ UNCHANGED libVars

\* otel.go:51-52: Provider.Shutdown(ctx) calls p.tracerProvider.Shutdown(ctx).
ShutdownCall(c, ctx) ==
  /\ calls[c].provider # None
  /\ sd[c].pc = "idle"
  /\ sd' = [sd EXCEPT ![c] = [IdleShutdown EXCEPT !.pc = "sdk", !.ctx0 = ctx,
                                !.ctx = ctx, !.passed = "ctx"]]
  /\ UNCHANGED <<buffered, main, server, listener, proc, reqs, spans>>
  /\ UNCHANGED libVars

\* The deadline of the caller's context passes while Shutdown runs.
DeadlineElapses(c) ==
  /\ sd[c].pc = "sdk"
  /\ sd[c].ctx = "pending"
  /\ sd' = [sd EXCEPT ![c].ctx = "expired"]
  /\ UNCHANGED <<buffered, main, server, listener, proc, reqs, spans>>
  /\ UNCHANGED libVars

\* The tracer provider's Shutdown exports one buffered span to the collector.
TPShutdownExport(c) ==
  /\ sd[c].pc = "sdk"
  /\ SdkCtx(c) # "expired"
  /\ buffered[c] > 0
  /\ buffered' = [buffered EXCEPT ![c] = @ - 1]
  /\ sd' = [sd EXCEPT ![c].exported = @ + 1]
  /\ UNCHANGED <<main, server, listener, proc, reqs, spans>>
  /\ UNCHANGED libVars

\* The tracer provider's Shutdown ends: every buffered span was exported.
TPShutdownDone(c) ==
  /\ sd[c].pc = "sdk"
  /\ SdkCtx(c) # "expired"
  /\ buffered[c] = 0
  /\ sd' = [sd EXCEPT ![c].pc = "ret", ![c].sdkRes = Nil]
  /\ UNCHANGED <<buffered, main, server, listener, proc, reqs, spans>>
  /\ UNCHANGED libVars

\* The tracer provider's Shutdown gives up at the deadline: the spans still
\* buffered are abandoned and the context's error is returned.
TPShutdownTimeout(c) ==
  /\ sd[c].pc = "sdk"
  /\ SdkCtx(c) = "expired"
  /\ sd' = [sd EXCEPT ![c].pc = "ret", ![c].sdkRes = DeadlineExceeded]
  /\ UNCHANGED <<buffered, main, server, listener, proc, reqs, spans>>
  /\ UNCHANGED libVars

\* A Shutdown that reports success whatever the tracer provider returned.
ShutdownReturnSwallows(c) ==
  /\ sd[c].pc = "ret"
  /\ sd' = [sd EXCEPT ![c].pc = "done", ![c].res = Nil]
  /\ UNCHANGED <<buffered, main, server, listener, proc, reqs, spans>>
  /\ UNCHANGED libVars

\* otel.go:52: Provider.Shutdown returns what tracerProvider.Shutdown returned.
ShutdownReturn(c) ==
  /\ sd[c].pc = "ret"
  /\ sd' = [sd EXCEPT ![c].pc = "done", ![c].res = sd[c].sdkRes]
  /\ UNCHANGED <<buffered, main, server, listener, proc, reqs, spans>>
  /\ UNCHANGED libVars

ShutdownStep(c) ==
  \/ DeadlineElapses(c)
  \/ TPShutdownExport(c)
  \/ TPShutdownDone(c)
  \/ TPShutdownTimeout(c)
  \/ ShutdownReturn(c)

\* ------------------------------------------------------ spans and tracers
\* tracer.Start(ctx, name): a new span whose parent is the span ctx carries
\* (0: none); the returned context carries the new span, whose identity is
\* its position in spans.
StartSpan(sp, ctxSpan, name, r) ==
  Append(sp, [name |-> name, parent |-> ctxSpan, req |-> r, ended |-> FALSE,
              attrs |-> {}])

\* span.SetAttributes(...)
SetAttributes(sp, id, as) == [sp EXCEPT ![id].attrs = @ \cup as]

\* span.End(): the span is complete.
EndSpan(sp, id) == [sp EXCEPT ![id].ended = TRUE]

\* An ended span is queued in the batch span processor of the program's
\* provider; a full queue drops it.
Enqueue(b) == [b EXCEPT ![1] = IF @ < MaxBuffered THEN @ + 1 ELSE @]

\* otel.go:129-133: NewTracerMiddleware(provider, name) holds provider.GetTracer(name).
NewTracerMiddleware(provider, tracerName) ==
  Some([Tracer |-> [tp |-> provider[1].tracerProvider, name |-> tracerName]])

\* ------------------------------------------------ the demonstration program
Running == proc.exit = "running"

\* log.Fatalf: the message is logged and the process exits with status 1;
\* deferred functions do not run.
Fatalf(p, msg) == [p EXCEPT !.exit = "1", !.log = @ \cup {msg}]

\* main, lines 23-30: the configuration the program passes to InitProvider.
MainConfig ==
  [DefaultConfig EXCEPT !.ServiceName = "exemplo-servico", !.ServiceVersion = "1.0.0",
                        !.Environment = "production",
                        !.OtelEndpoint = "otel-collector:4317"]
MainAttributes == << [k |-> "deployment.region", v |-> "br-south"] >>

ReqInFlight(r) == reqs[r].pc \notin {"idle", "done", "panicked"}

\* main, lines 19-33: build the configuration and call InitProvider.
MainCallInit ==
  /\ Running
  /\ main.pc = "start"
  /\ Call(1, MainConfig, MainAttributes)

\* A start-up that goes on whatever InitProvider returned.
MainCheckInitIgnoresErr ==
  /\ Running
  /\ main.pc = "start"
  /\ calls[1].pc = "done"
  /\ main' = [main EXCEPT !.pc = "middleware", !.provider = calls[1].provider,
                          !.err = calls[1].err,
                          !.defers = <<"cancel", "providerShutdown">>]
  /\ UNCHANGED <<server, listener, proc, sd, buffered, reqs, spans>>
  /\ UNCHANGED libVars

\* main, lines 33-44: InitProvider has returned. An error is fatal; otherwise
\* the provider's shutdown is deferred (above the deferred cancel of line 20).
MainCheckInit ==
  /\ Running
  /\ main.pc = "start"
  /\ calls[1].pc = "done"
  /\ IF calls[1].err # None
     THEN /\ proc' = Fatalf(proc, "Falha ao inicializar o provedor OpenTelemetry")
          /\ main' = [main EXCEPT !.err = calls[1].err]
     ELSE /\ main' = [main EXCEPT !.pc = "middleware", !.provider = calls[1].provider,
                                  !.defers = <<"cancel", "providerShutdown">>]
          /\ proc' = proc
  /\ UNCHANGED <<server, listener, sd, buffered, reqs, spans>>
  /\ UNCHANGED libVars

\* main, line 47.
MainNewMiddleware ==
  /\ Running
  /\ main.pc = "middleware"
  /\ main' = [main EXCEPT !.pc = "handleManual",
                          !.middleware = NewTracerMiddleware(main.provider, "api-handlers")]
  /\ UNCHANGED <<server, listener, proc, sd, buffered, reqs, spans>>
  /\ UNCHANGED libVars

\* main, lines 50-65: register the /manual-trace handler.
MainHandleManual ==
  /\ Running
  /\ main.pc = "handleManual"
  /\ server' = [server EXCEPT !.routes = @ \cup {"/manual-trace"}]
  /\ main' = [main EXCEPT !.pc = "handleUsers"]
  /\ UNCHANGED <<listener, proc, sd, buffered, reqs, spans>>
  /\ UNCHANGED libVars

\* main, line 68: register exampleHandler(tracerMiddleware) under /api/users.
MainHandleUsers ==
  /\ Running
  /\ main.pc = "handleUsers"
  /\ server' = [server EXCEPT !.routes = @ \cup {"/api/users"}]
  /\ main' = [main EXCEPT !.pc = "go"]
  /\ UNCHANGED <<listener, proc, sd, buffered, reqs, spans>>
  /\ UNCHANGED libVars

\* main, lines 71-81: create the server and start the goroutine that serves.
MainGoListen ==
  /\ Running
  /\ main.pc = "go"
  /\ listener' = "starting"
  /\ main' = [main EXCEPT !.pc = "notify"]
  /\ UNCHANGED <<server, proc, sd, buffered, reqs, spans>>
  /\ UNCHANGED libVars

\* main, lines 84-85: signal.Notify(sigChan, SIGINT, SIGTERM).
MainNotify ==
  /\ Running
  /\ main.pc = "notify"
  /\ proc' = [proc EXCEPT !.notify = TRUE]
  /\ main' = [main EXCEPT !.pc = "wait"]
  /\ UNCHANGED <<server, listener, sd, buffered, reqs, spans>>
  /\ UNCHANGED libVars

\* SIGINT or SIGTERM is sent to the process: queued on sigChan once Notify has
\* registered it, the default disposition (the process dies) before.
SignalArrives ==
  /\ Running
  /\ proc.signal = "none"
  /\ proc' = IF proc.notify THEN [proc EXCEPT !.signal = "queued"]
             ELSE [proc EXCEPT !.signal = "delivered", !.exit = "killed"]
  /\ UNCHANGED <<main, server, listener, sd, buffered, reqs, spans>>
  /\ UNCHANGED libVars

\* main, lines 86-90: <-sigChan returns; the server's shutdown context is made
\* and its cancel deferred.
MainReceiveSignal ==
  /\ Running
  /\ main.pc = "wait"
  /\ proc.signal = "queued"
  /\ proc' = [proc EXCEPT !.signal = "delivered", !.log = @ \cup {"Encerrando servidor..."}]
  /\ main' = [main EXCEPT !.pc = "srvShutdown", !.sigReceived = TRUE,
                          !.defers = Append(@, "shutdownCancel")]
  /\ UNCHANGED <<server, listener, sd, buffered, reqs, spans>>
  /\ UNCHANGED libVars

\* main, line 92: server.Shutdown closes the listeners: no request is accepted.
ServerShutdownBegin ==
  /\ Running
  /\ main.pc = "srvShutdown"
  /\ server' = [server EXCEPT !.state = "closed"]
  /\ main' = [main EXCEPT !.pc = "srvDrain"]
  /\ UNCHANGED <<listener, proc, sd, buffered, reqs, spans>>
  /\ UNCHANGED libVars

\* main, lines 92-96: server.Shutdown returns nil once no request is in flight.
ServerShutdownOK ==
  /\ Running
  /\ main.pc = "srvDrain"
  /\ \A r \in Reqs : ~ReqInFlight(r)
  /\ proc' = [proc EXCEPT !.log = @ \cup {"Servidor encerrado com sucesso"}]
  /\ main' = [main EXCEPT !.pc = "defers"]
  /\ UNCHANGED <<server, listener, sd, buffered, reqs, spans>>
  /\ UNCHANGED libVars

\* main, lines 92-94: the 10 s of server.Shutdown pass with a request still in
\* flight: it returns the context's error, and log.Fatalf ends the process.
ServerShutdownTimeout ==
  /\ Running
  /\ main.pc = "srvDrain"
  /\ \E r \in Reqs : ReqInFlight(r)
  /\ proc' = Fatalf(proc, "Erro ao encerrar servidor")
  /\ UNCHANGED <<main, server, listener, sd, buffered, reqs, spans>>
  /\ UNCHANGED libVars

Top(s) == s[Len(s)]
Pop(s) == SubSeq(s, 1, Len(s) - 1)

\* main returns (line 97): the deferred cancels (lines 20, 90) run in LIFO order.
MainRunCancel ==
  /\ Running
  /\ main.pc = "defers"
  /\ main.defers # <<>>
  /\ Top(main.defers) \in {"shutdownCancel", "cancel"}
  /\ main' = [main EXCEPT !.defers = Pop(@)]
  /\ UNCHANGED <<server, listener, proc, sd, buffered, reqs, spans>>
  /\ UNCHANGED libVars

\* main, lines 37-41: the deferred function calls provider.Shutdown with a
\* context of 5 s.
MainDeferredShutdown ==
  /\ Running
  /\ main.pc = "defers"
  /\ main.defers # <<>>
  /\ Top(main.defers) = "providerShutdown"
  /\ ShutdownCall(1, "pending")

\* main, lines 41-44: provider.Shutdown has returned; an error goes to log.Fatalf.
MainDeferredShutdownDone ==
  /\ Running
  /\ main.pc = "defers"
  /\ main.defers # <<>>
  /\ Top(main.defers) = "providerShutdown"
  /\ sd[1].pc = "done"
  /\ IF sd[1].res # Nil
     THEN /\ proc' = Fatalf(proc, "Erro ao finalizar o provedor")
          /\ main' = main
     ELSE /\ main' = [main EXCEPT !.defers = Pop(@)]
          /\ proc' = proc
  /\ UNCHANGED <<server, listener, sd, buffered, reqs, spans>>
  /\ UNCHANGED libVars

\* Every deferred function has run: main has returned and the process exits 0.
MainExit ==
  /\ Running
  /\ main.pc = "defers"
  /\ main.defers = <<>>
  /\ proc' = [proc EXCEPT !.exit = "0"]
  /\ main' = [main EXCEPT !.pc = "returned"]
  /\ UNCHANGED <<server, listener, sd, buffered, reqs, spans>>
  /\ UNCHANGED libVars

\* main, lines 76-78: ListenAndServe binds :8080 and serves.
ListenOK ==
  /\ Running
  /\ listener = "starting"
  /\ server.state = "new"
  /\ server' = [server EXCEPT !.state = "listening"]
  /\ listener' = "serving"
  /\ UNCHANGED <<main, proc, sd, buffered, reqs, spans>>
  /\ UNCHANGED libVars

\* main, lines 78-80: ListenAndServe fails to bind: log.Fatalf in the goroutine.
ListenFail ==
  /\ Running
  /\ listener = "starting"
  /\ server.state = "new"
  /\ proc' = Fatalf(proc, "Erro ao iniciar servidor")
  /\ UNCHANGED <<main, server, listener, sd, buffered, reqs, spans>>
  /\ UNCHANGED libVars

\* main, line 78: after server.Shutdown, ListenAndServe returns ErrServerClosed,
\* which is not an error to the goroutine.
ListenClosed ==
  /\ Running
  /\ listener \in {"starting", "serving"}
  /\ server.state = "closed"
  /\ listener' = "ended"
  /\ UNCHANGED <<main, server, proc, sd, buffered, reqs, spans>>
  /\ UNCHANGED libVars

\* ------------------------------------------------------ request handlers
Routes == {"/manual-trace", "/api/users", "wrapped"}

IdleReq ==
  [pc |-> "idle", route |-> Nil, ctx |-> 0, childCtx |-> 0, span |-> 0,
   childSpan |-> 0, anotherSpan |-> 0]

\* The server accepts a request for a registered route and runs its handler in
\* a goroutine of its own; r.Context() carries no span.
ReqArrive(r, route) ==
  /\ Running
  /\ server.state = "listening"
  /\ route \in server.routes
  /\ reqs[r].pc = "idle"
  /\ reqs' = [reqs EXCEPT ![r] = [IdleReq EXCEPT !.pc = "start", !.route = route]]
  /\ UNCHANGED <<spans, main, server, listener, proc, sd, buffered>>
  /\ UNCHANGED libVars

\* /manual-trace, lines 52-56: the span is started and its End deferred.
ManualStart(r) ==
  /\ Running
  /\ reqs[r].pc = "start" /\ reqs[r].route = "/manual-trace"
  /\ spans' = StartSpan(spans, reqs[r].ctx, "manual-operation", r)
  /\ reqs' = [reqs EXCEPT ![r].pc = "manualBody", ![r].span = Len(spans) + 1]
  /\ UNCHANGED <<main, server, listener, proc, sd, buffered>>
  /\ UNCHANGED libVars

\* /manual-trace, lines 59-64: attributes, the simulated work, the response.
ManualBody(r) ==
  /\ Running
  /\ reqs[r].pc = "manualBody"
  /\ spans' = SetAttributes(spans, reqs[r].span, {"example.key"})
  /\ reqs' = [reqs EXCEPT ![r].pc = "manualReturn"]
  /\ UNCHANGED <<main, server, listener, proc, sd, buffered>>
  /\ UNCHANGED libVars

\* /manual-trace, lines 56 and 65: the handler returns; the deferred End runs.
ManualReturn(r) ==
  /\ Running
  /\ reqs[r].pc = "manualReturn"
  /\ spans' = EndSpan(spans, reqs[r].span)
  /\ buffered' = Enqueue(buffered)
  /\ reqs' = [reqs EXCEPT ![r].pc = "done"]
  /\ UNCHANGED <<main, server, listener, proc, sd>>
  /\ UNCHANGED libVars

\* exampleHandler, lines 103-104: the request span; ctx carries it; End deferred.
UsersStart(r) ==
  /\ Running
  /\ reqs[r].pc = "start" /\ reqs[r].route = "/api/users"
  /\ spans' = StartSpan(spans, reqs[r].ctx, "process-user-request", r)
  /\ reqs' = [reqs EXCEPT ![r].pc = "usersAttrs", ![r].span = Len(spans) + 1,
                          ![r].ctx = Len(spans) + 1]
  /\ UNCHANGED <<main, server, listener, proc, sd, buffered>>
  /\ UNCHANGED libVars

\* exampleHandler, lines 107-110.
UsersSetAttrs(r) ==
  /\ Running
  /\ reqs[r].pc = "usersAttrs"
  /\ spans' = SetAttributes(spans, reqs[r].span, {"user.id", "request.type"})
  /\ reqs' = [reqs EXCEPT ![r].pc = "usersChild"]
  /\ UNCHANGED <<main, server, listener, proc, sd, buffered>>
  /\ UNCHANGED libVars

\* exampleHandler, line 113: childCtx, childSpan := Tracer.Start(ctx, "database-query").
UsersChildStart(r) ==
  /\ Running
  /\ reqs[r].pc = "usersChild"
  /\ spans' = StartSpan(spans, reqs[r].ctx, "database-query", r)
  /\ reqs' = [reqs EXCEPT ![r].pc = "usersChildEnd", ![r].childSpan = Len(spans) + 1,
                          ![r].childCtx = Len(spans) + 1]
  /\ UNCHANGED <<main, server, listener, proc, sd, buffered>>
  /\ UNCHANGED libVars

\* exampleHandler, lines 115-116: the simulated query, then childSpan.End().
UsersChildEnd(r) ==
  /\ Running
  /\ reqs[r].pc = "usersChildEnd"
  /\ spans' = EndSpan(spans, reqs[r].childSpan)
  /\ buffered' = Enqueue(buffered)
  /\ reqs' = [reqs EXCEPT ![r].pc = "usersAnother"]
  /\ UNCHANGED <<main, server, listener, proc, sd>>
  /\ UNCHANGED libVars

\* A second sub-operation started from the first one's context.
UsersAnotherStartNested(r) ==
  /\ Running
  /\ reqs[r].pc = "usersAnother"
  /\ spans' = StartSpan(spans, reqs[r].childCtx, "process-user-data", r)
  /\ reqs' = [reqs EXCEPT ![r].pc = "usersAnotherEnd", ![r].anotherSpan = Len(spans) + 1]
  /\ UNCHANGED <<main, server, listener, proc, sd, buffered>>
  /\ UNCHANGED libVars

\* exampleHandler, line 119: _, anotherSpan := Tracer.Start(ctx, "process-user-data").
UsersAnotherStart(r) ==
  /\ Running
  /\ reqs[r].pc = "usersAnother"
  /\ spans' = StartSpan(spans, reqs[r].ctx, "process-user-data", r)
  /\ reqs' = [reqs EXCEPT ![r].pc = "usersAnotherEnd", ![r].anotherSpan = Len(spans) + 1]
  /\ UNCHANGED <<main, server, listener, proc, sd, buffered>>
  /\ UNCHANGED libVars

\* exampleHandler, lines 121-122: the simulated work, then anotherSpan.End().
UsersAnotherEnd(r) ==
  /\ Running
  /\ reqs[r].pc = "usersAnotherEnd"
  /\ spans' = EndSpan(spans, reqs[r].anotherSpan)
  /\ buffered' = Enqueue(buffered)
  /\ reqs' = [reqs EXCEPT ![r].pc = "usersReturn"]
  /\ UNCHANGED <<main, server, listener, proc, sd>>
  /\ UNCHANGED libVars

\* A return that leaves the request span open.
UsersReturnNoEnd(r) ==
  /\ Running
  /\ reqs[r].pc = "usersReturn"
  /\ reqs' = [reqs EXCEPT ![r].pc = "done"]
  /\ UNCHANGED <<spans, main, server, listener, proc, sd, buffered>>
  /\ UNCHANGED libVars

\* exampleHandler, lines 104 and 125-126: the response is written, the handler
\* returns and the deferred span.End() runs.
UsersReturn(r) ==
  /\ Running
  /\ reqs[r].pc = "usersReturn"
  /\ spans' = EndSpan(spans, reqs[r].span)
  /\ buffered' = Enqueue(buffered)
  /\ reqs' = [reqs EXCEPT ![r].pc = "done"]
  /\ UNCHANGED <<main, server, listener, proc, sd>>
  /\ UNCHANGED libVars

\* otel.go:139-143 (the Handle pattern): a span named after the request's
\* method and path; ctx carries it; End deferred.
WrappedStart(r) ==
  /\ Running
  /\ reqs[r].pc = "start" /\ reqs[r].route = "wrapped"
  /\ spans' = StartSpan(spans, reqs[r].ctx, "GET /wrapped", r)
  /\ reqs' = [reqs EXCEPT ![r].pc = "wrappedNext", ![r].span = Len(spans) + 1,
                          ![r].ctx = Len(spans) + 1]
  /\ UNCHANGED <<main, server, listener, proc, sd, buffered>>
  /\ UNCHANGED libVars

\* otel.go:146-152: attributes, then next.ServeHTTP with the new context; the
\* next handler returns or panics.
WrappedNext(r, outcome) ==
  /\ Running
  /\ reqs[r].pc = "wrappedNext"
  /\ spans' = SetAttributes(spans, reqs[r].span, {"http.method", "http.url"})
  /\ reqs' = [reqs EXCEPT ![r].pc = IF outcome = "panic" THEN "wrappedUnwind"
                                    ELSE "wrappedReturn"]
  /\ UNCHANGED <<main, server, listener, proc, sd, buffered>>
  /\ UNCHANGED libVars

\* otel.go:143 and 153: the wrapper is left, by return or by the panic
\* unwinding through it; the deferred span.End() runs either way.
WrappedReturn(r) ==
  /\ Running
  /\ reqs[r].pc \in {"wrappedReturn", "wrappedUnwind"}
  /\ spans' = EndSpan(spans, reqs[r].span)
  /\ buffered' = Enqueue(buffered)
  /\ reqs' = [reqs EXCEPT ![r].pc = IF reqs[r].pc = "wrappedUnwind" THEN "panicked"
                                    ELSE "done"]
  /\ UNCHANGED <<main, server, listener, proc, sd>>
  /\ UNCHANGED libVars

\* ------------------------------------------------------------ initial states
InitLib ==
  /\ global = [tp |-> NoopTP, prop |-> NoopProp]
  /\ calls = [c \in Calls |-> IdleCall]
  /\ heap = [c \in Calls |-> <<>>]
  /\ nextTP = 1
  /\ hist = [lastWriter |-> 0, lastOK |-> 0, overlap |-> FALSE]

InitSd ==
  /\ sd = [c \in Calls |-> IdleShutdown]
  /\ buffered = [c \in Calls |-> 0]

InitMainVars ==
  /\ main = [pc |-> "start", provider |-> None, err |-> None, defers |-> <<>>,
             middleware |-> None, sigReceived |-> FALSE]
  /\ server = [state |-> "new", routes |-> {}]
  /\ listener = "idle"
  /\ proc = [exit |-> "running", log |-> {}, signal |-> "none", notify |-> FALSE]

InitReq ==
  /\ reqs = [r \in Reqs |-> IdleReq]
  /\ spans = <<>>

\* The process starts, or a test starts with nothing initialised.
Init == InitLib /\ InitSd /\ InitMainVars /\ InitReq

\* ------------------------------------------- Spec: InitProvider, concurrently
BaseConfigs == {[DefaultConfig EXCEPT !.ServiceName = n] : n \in ServiceNames}

CallAny(c) ==
  \E base \in BaseConfigs, arr \in SeqsUpTo(AttrPool, MaxAttrs) : Call(c, base, arr)

Next ==
  \E c \in Calls :
    \/ CallAny(c)
    \/ BuildAttrs(c)
    \/ ResourceOK(c)
    \/ \E e \in ResourceErrs : ResourceFail(c, e)
    \/ ExporterOK(c)
    \/ \E e \in ExporterErrs : ExporterFail(c, e)
    \/ SetTracerProvider(c)
    \/ SetTextMapPropagator(c)
    \/ Return(c)

Spec == Init /\ [][Next]_vars

\* ------------------------------------- SpecMain: the demonstration program
NextMain ==
  \/ MainCallInit
  \/ InitProviderStep(1)
  \/ MainCheckInit
  \/ MainNewMiddleware
  \/ MainHandleManual
  \/ MainHandleUsers
  \/ MainGoListen
  \/ MainNotify
  \/ SignalArrives
  \/ MainReceiveSignal
  \/ ServerShutdownBegin
  \/ ServerShutdownOK
  \/ ServerShutdownTimeout
  \/ MainRunCancel
  \/ MainDeferredShutdown
  \/ ShutdownStep(1)
  \/ MainDeferredShutdownDone
  \/ MainExit
  \/ ListenOK
  \/ ListenFail
  \/ ListenClosed
  \/ \E r \in Reqs :
       \/ \E route \in Routes : ReqArrive(r, route)
       \/ ManualStart(r) \/ ManualBody(r) \/ ManualReturn(r)
       \/ UsersStart(r) \/ UsersSetAttrs(r) \/ UsersChildStart(r) \/ UsersChildEnd(r)
       \/ UsersAnotherStart(r) \/ UsersAnotherEnd(r) \/ UsersReturn(r)

SpecMain == Init /\ [][NextMain]_vars

\* --------------------------- SpecShutdown: Provider.Shutdown on live providers
\* What call c holds once InitProvider(base with attributes arr) succeeded as
\* the c-th provider of the process.
InitializedCall(c, base, arr) ==
  LET cfg == [base EXCEPT !.Attributes = [arr |-> c, len |-> Len(arr)]]
      attrs == BuiltinAttrs(cfg) \o arr
  IN [pc |-> "done", callerCfg |-> cfg, cfg |-> cfg, attrs |-> attrs, res |-> attrs,
      exporter |-> "created", tp |-> c, wrote |-> {"tp", "prop"},
      provider |-> Some([tracerProvider |-> c, config |-> cfg]), err |-> None]

\* Every call has returned a provider, one after the other; each provider's
\* processor holds some spans that were ended and not yet exported.
InitShutdown ==
  /\ global = [tp |-> MaxCalls, prop |-> CompositeProp]
  /\ calls = [c \in Calls |-> InitializedCall(c, DefaultConfig, <<>>)]
  /\ heap = [c \in Calls |-> <<>>]
  /\ nextTP = MaxCalls + 1
  /\ hist = [lastWriter |-> MaxCalls, lastOK |-> MaxCalls, overlap |-> FALSE]
  /\ sd = [c \in Calls |-> IdleShutdown]
  /\ buffered \in [Calls -> 0..MaxBuffered]
  /\ InitMainVars
  /\ InitReq

NextShutdown ==
  \E c \in Calls :
    \/ \E ctx \in CtxKinds : ShutdownCall(c, ctx)
    \/ DeadlineElapses(c)
    \/ TPShutdownExport(c)
    \/ TPShutdownDone(c)
    \/ TPShutdownTimeout(c)
    \/ ShutdownReturn(c)

\* The goroutine inside Shutdown keeps running and its caller is scheduled.
FairShutdown ==
  \A c \in Calls :
    /\ WF_vars(TPShutdownExport(c))
    /\ WF_vars(TPShutdownDone(c))
    /\ WF_vars(TPShutdownTimeout(c))
    /\ WF_vars(ShutdownReturn(c))

SpecShutdown == InitShutdown /\ [][NextShutdown]_vars /\ FairShutdown

\* ------------------------------- SpecHandlers: handlers on a serving program
\* The program as main leaves it at line 86: provider installed, handlers
\* registered, server listening, main waiting for a signal. The Handle pattern
\* of otel.go:137-154 is registered beside the two handlers of main.
InitHandlers ==
  /\ global = [tp |-> 1, prop |-> CompositeProp]
  /\ calls = [c \in Calls |-> IF c = 1 THEN InitializedCall(1, MainConfig, MainAttributes)
                              ELSE IdleCall]
  /\ heap = [c \in Calls |-> IF c = 1 THEN MainAttributes ELSE <<>>]
  /\ nextTP = 2
  /\ hist = [lastWriter |-> 1, lastOK |-> 1, overlap |-> FALSE]
  /\ InitSd
  /\ main = [pc |-> "wait",
             provider |-> InitializedCall(1, MainConfig, MainAttributes).provider,
             err |-> None, defers |-> <<"cancel", "providerShutdown">>,
             middleware |-> NewTracerMiddleware(
                              InitializedCall(1, MainConfig, MainAttributes).provider,
                              "api-handlers"),
             sigReceived |-> FALSE]
  /\ server = [state |-> "listening", routes |-> Routes]
  /\ listener = "serving"
  /\ proc = [exit |-> "running", log |-> {}, signal |-> "none", notify |-> TRUE]
  /\ InitReq

NextHandlers ==
  \E r \in Reqs :
    \/ \E route \in Routes : ReqArrive(r, route)
    \/ ManualStart(r) \/ ManualBody(r) \/ ManualReturn(r)
    \/ UsersStart(r) \/ UsersSetAttrs(r) \/ UsersChildStart(r) \/ UsersChildEnd(r)
    \/ UsersAnotherStart(r) \/ UsersAnotherEnd(r) \/ UsersReturn(r)
    \/ WrappedStart(r)
    \/ \E outcome \in {"return", "panic"} : WrappedNext(r, outcome)
    \/ WrappedReturn(r)

SpecHandlers == InitHandlers /\ [][NextHandlers]_vars

\* The states the other specifications start from are states of the program.
ReachedInitShutdown ==
  /\ global = [tp |-> MaxCalls, prop |-> CompositeProp]
  /\ calls = [c \in Calls |-> InitializedCall(c, DefaultConfig, <<>>)]
  /\ nextTP = MaxCalls + 1
  /\ hist = [lastWriter |-> MaxCalls, lastOK |-> MaxCalls, overlap |-> FALSE]
ReachedInitHandlers ==
  /\ global = [tp |-> 1, prop |-> CompositeProp]
  /\ calls[1] = InitializedCall(1, MainConfig, MainAttributes)
  /\ heap[1] = MainAttributes
  /\ nextTP = 2
  /\ main = [pc |-> "wait",
             provider |-> InitializedCall(1, MainConfig, MainAttributes).provider,
             err |-> None, defers |-> <<"cancel", "providerShutdown">>,
             middleware |-> NewTracerMiddleware(
                              InitializedCall(1, MainConfig, MainAttributes).provider,
                              "api-handlers"),
             sigReceived |-> FALSE]
  /\ server = [state |-> "listening", routes |-> {"/manual-trace", "/api/users"}]
  /\ listener = "serving"
  /\ proc = [exit |-> "running", log |-> {}, signal |-> "none", notify |-> TRUE]
  /\ reqs = [r \in Reqs |-> IdleReq]

\* ================================================================== claims
Quiescent == \A c \in Calls : ~InFlight(c)
Returned(c) == calls[c].pc = "done"
Succeeded(c) == Returned(c) /\ calls[c].provider # None
Failed(c) == Returned(c) /\ calls[c].err # None

\* C1 (Spec): InitProvider returns either a provider and no error, or no
\* provider and an error; a call that returned an error wrote neither global,
\* and while every call made so far has failed the global provider and
\* propagator are the ones the process started with.
C1_InitAllOrNothing ==
  /\ \A c \in Calls : Returned(c) =>
        \/ calls[c].provider # None /\ calls[c].err = None
        \/ calls[c].provider = None /\ calls[c].err # None /\ calls[c].wrote = {}
  /\ (\A c \in Calls : calls[c].pc = "idle" \/ Failed(c)) =>
        global = [tp |-> NoopTP, prop |-> NoopProp]

\* C1's case: one call failed at the exporter stage, after resource
\* construction succeeded, and returned with the globals untouched.
C1_Witness ==
  /\ \E c \in Calls : Failed(c) /\ calls[c].exporter = "failed" /\ calls[c].res # <<>>
  /\ \E c \in Calls : Failed(c) /\ calls[c].res = <<>>
  /\ global = [tp |-> NoopTP, prop |-> NoopProp]

\* C3 (Spec): the error names the stage that failed. A call whose resource
\* construction failed returns the 'failed to create resource' wrapper around
\* resource.New's error and never tried the exporter; a call whose exporter
\* construction failed returns the 'failed to create trace exporter' wrapper
\* around otlptrace.New's error, its resource having been built.
C3_ErrorNamesStage ==
  \A c \in Calls : Failed(c) =>
    /\ calls[c].res = <<>> =>
         /\ calls[c].err[1].msg = "failed to create resource"
         /\ calls[c].err[1].cause \in ResourceErrs
         /\ calls[c].exporter = "untried"
    /\ calls[c].res # <<>> =>
         /\ calls[c].err[1].msg = "failed to create trace exporter"
         /\ calls[c].err[1].cause \in ExporterErrs
         /\ calls[c].exporter = "failed"

\* C3's case: a resource failure and an exporter failure, side by side.
C3_Witness ==
  /\ \E c \in Calls : Failed(c) /\ calls[c].err[1].msg = "failed to create resource"
  /\ \E c \in Calls : Failed(c) /\ calls[c].err[1].msg = "failed to create trace exporter"
                               /\ calls[c].err[1].cause = "connection refused"

\* C7 (Spec): when the calls were serialized and none is running, the global
\* provider is the one of the latest call that succeeded and the propagator is
\* the composite of trace-context and baggage (or both are untouched when none
\* succeeded). Serialized or not, the global provider is the one of the call
\* that wrote it last, and the providers handed to the callers are distinct.
C7_LastCallWins ==
  /\ (~hist.overlap /\ Quiescent) =>
        IF hist.lastOK = 0
        THEN global = [tp |-> NoopTP, prop |-> NoopProp]
        ELSE /\ global.tp = calls[hist.lastOK].provider[1].tracerProvider
             /\ global.prop = CompositeProp
  /\ global.tp = (IF hist.lastWriter = 0 THEN NoopTP ELSE calls[hist.lastWriter].tp)
  /\ \A c, d \in Calls : (Succeeded(c) /\ Succeeded(d) /\ c # d) =>
        calls[c].provider[1].tracerProvider # calls[d].provider[1].tracerProvider

\* C7's case: two overlapping calls both succeeded, and the provider installed
\* is the one of the call that wrote last, not of the call that returned last.
C7_Witness ==
  /\ hist.overlap /\ Quiescent
  /\ \A c \in Calls : Succeeded(c)
  /\ hist.lastWriter # hist.lastOK
  /\ global.tp = calls[hist.lastWriter].provider[1].tracerProvider

\* C7's serialized case: a call succeeded, a later one failed, one after the other.
C7_SerialWitness ==
  /\ ~hist.overlap /\ Quiescent
  /\ \E c, d \in Calls : Succeeded(c) /\ Failed(d) /\ global.tp = calls[c].tp

\* C10 (Spec): no step of InitProvider changes the caller's Config or the
\* array behind its Attributes, and a provider that was returned holds a
\* configuration equal to the caller's, while the resource attributes are the
\* three built-in ones followed by the caller's.
C10_CallerConfigKept ==
  /\ [](\A c \in Calls : Succeeded(c) =>
          /\ calls[c].provider[1].config = calls[c].callerCfg
          /\ calls[c].attrs = BuiltinAttrs(calls[c].callerCfg)
                                \o SliceElems(heap, calls[c].callerCfg.Attributes))
  /\ [][\A c \in Calls : calls[c].pc # "idle" =>
          /\ calls'[c].callerCfg = calls[c].callerCfg
          /\ heap'[c] = heap[c]]_vars

\* C10's case: a call with a non-empty Attributes list returned a provider.
C10_Witness ==
  \E c \in Calls :
    /\ Succeeded(c)
    /\ calls[c].callerCfg.Attributes.len > 0
    /\ Len(calls[c].attrs) = 3 + calls[c].callerCfg.Attributes.len

\* What holds of every Shutdown at every moment: the tracer provider got the
\* caller's ctx; a returned result is the tracer provider's, nil with nothing
\* left buffered or the deadline error with ctx expired; under a ctx that had
\* already expired it is the deadline error and nothing was exported.
ShutdownInv ==
  \A c \in Calls :
    /\ sd[c].pc # "idle" => sd[c].passed = "ctx"
    /\ sd[c].pc = "done" =>
         /\ sd[c].res = sd[c].sdkRes
         /\ sd[c].res \in {Nil, DeadlineExceeded}
         /\ sd[c].res = Nil => buffered[c] = 0 /\ sd[c].ctx0 # "expired"
         /\ sd[c].res = DeadlineExceeded => sd[c].ctx = "expired"
         /\ sd[c].ctx0 = "expired" => sd[c].res = DeadlineExceeded /\ sd[c].exported = 0

C2_OrderedShutdown ==
  /\ (main.sigReceived /\ ~Running) => (server.state = "closed" /\ sd[1].pc # "idle")
  /\ sd[1].pc # "idle" => server.state = "closed"

\* C5 (SpecMain): when provider.Shutdown returned an error and the process has
\* exited, the error was logged and the process left by its normal exit.
C5_ShutdownErrorNonFatal ==
  (sd[1].pc = "done" /\ sd[1].res # Nil /\ ~Running) =>
     ("Erro ao finalizar o provedor" \in proc.log /\ proc.exit = "0")

\* C4 (SpecMain): handlers are registered and the server is started, listening
\* or serving only after InitProvider returned a provider, which is then the
\* global one; once main has seen InitProvider's error the process has exited
\* with status 1, no handler registered and no server started.
C4_NoServingWithoutProvider ==
  /\ (server.routes # {} \/ server.state # "new" \/ listener # "idle"
        \/ \E r \in Reqs : reqs[r].pc # "idle") =>
       (Succeeded(1) /\ main.provider = calls[1].provider
          /\ global.tp = calls[1].provider[1].tracerProvider)
  /\ Failed(1) => (main.pc = "start" /\ server = [state |-> "new", routes |-> {}]
                     /\ listener = "idle")
  /\ main.err # None => proc.exit = "1"

\* C4's case: the server is listening with both handlers registered.
C4_Witness ==
  /\ server.state = "listening"
  /\ server.routes = {"/manual-trace", "/api/users"}
  /\ Succeeded(1)

\* C4's other case: InitProvider failed and the process exited at start-up.
C4_FatalWitness == Failed(1) /\ proc.exit = "1" /\ server.routes = {}

SpansOf(r) == {i \in 1..Len(spans) : spans[i].req = r}
Finished(r) == reqs[r].pc \in {"done", "panicked"}

\* C6 (SpecHandlers): when a handler has returned, by return or by panic,
\* every span it started is ended: the one span of /manual-trace and of the
\* wrapping pattern, the request span and both sub-operation spans of
\* exampleHandler.
C6_SpansEndedAtReturn ==
  \A r \in Reqs : Finished(r) =>
    /\ \A i \in SpansOf(r) : spans[i].ended
    /\ Cardinality(SpansOf(r)) = (IF reqs[r].route = "/api/users" THEN 3 ELSE 1)

\* C6's case: an exampleHandler request returned and a wrapped request was
\* left by a panic of the next handler.
C6_Witness ==
  /\ \E r \in Reqs : reqs[r].pc = "done" /\ reqs[r].route = "/api/users"
  /\ \E r \in Reqs : reqs[r].pc = "panicked" /\ reqs[r].route = "wrapped"

\* C9 (SpecHandlers): a span's parent is the span carried by the context it
\* was started from. In exampleHandler 'database-query' and
\* 'process-user-data' are both children of the same request's
\* 'process-user-request' span, and no span is ended while a child of it is open.
C9_ChildrenOfRequestSpan ==
  /\ \A r \in Reqs : reqs[r].route = "/api/users" =>
       /\ reqs[r].childSpan # 0 =>
            /\ spans[reqs[r].childSpan].name = "database-query"
            /\ spans[reqs[r].childSpan].parent = reqs[r].span
       /\ reqs[r].anotherSpan # 0 =>
            /\ spans[reqs[r].anotherSpan].name = "process-user-data"
            /\ spans[reqs[r].anotherSpan].parent = reqs[r].span
            /\ spans[reqs[r].anotherSpan].parent # reqs[r].childSpan
       /\ reqs[r].span # 0 =>
            /\ spans[reqs[r].span].name = "process-user-request"
            /\ spans[reqs[r].span].parent = 0
  /\ \A i \in 1..Len(spans) : spans[i].parent # 0 =>
       /\ spans[spans[i].parent].req = spans[i].req
       /\ spans[spans[i].parent].ended => spans[i].ended

\* C9's case: two exampleHandler requests ran interleaved and both returned
\* with their three spans.
C9_Witness ==
  /\ \A r \in 1..2 : reqs[r].pc = "done" /\ reqs[r].route = "/api/users"
  /\ \E i \in 1..Len(spans) : spans[i].parent # 0 /\ spans[i].parent # i - 1
                                 /\ spans[i].parent # i - 2
====
